---------------------------- MODULE Spec2Model ----------------------------
(***************************************************************************)
(* A model of the gmail-actions rule engine: the two rule matchers         *)
(* (app/helpers.py and app/email_processor.py), the action dispatcher,     *)
(* the rules loader, the sqlite store (app/db/queries.py) and the          *)
(* fetch / process orchestration (app/email_processor.py).                 *)
(*                                                                         *)
(* Python values are modelled as tagged records so that the dynamic type   *)
(* of a value (str, None, int, bool, datetime) decides what an operation   *)
(* does with it, as it does in the interpreter.  Python strings are        *)
(* sequences of one-character strings.  A call that raises is modelled by  *)
(* the outcome "Raise".                                                    *)
(***************************************************************************)
EXTENDS Integers, Sequences, FiniteSets, TLC

VARIABLES
    \* ---- the matcher under evaluation (one call of email_matches_rule)
    fn,         \* which function was called: "none", "helpers", "processor"
    email,      \* the email dict passed to it
    rule,       \* the Rule passed to it
    now,        \* datetime.now().astimezone() at the time of the call
    result,     \* "True", "False" or "Raise"
    \* ---- the store, the rules file and one run of process_emails
    actionList, \* the action list passed to a direct call of perform_actions
    tableExists,\* whether init_db has created the table emails
    store,      \* table emails: the rows in rowid order
    fetched,    \* the messages the last fetch returned
    inserted,   \* what insert_email returned for each of them
    rulesFile,  \* the content of rules.json
    pc,         \* position of process_emails
    emails,     \* the snapshot get_all_emails() returned to the run
    rules,      \* the rules load_rules() returned to the run
    ei, ri, ai, \* indices of the current email, rule and action
    loaded,     \* outcome of the run's load_rules call
    log         \* what the run did so far, in order

vars == <<fn, email, rule, now, result, actionList, tableExists,
          store, fetched, inserted, rulesFile, pc, emails, rules, ei, ri, ai, loaded, log>>

callVars == <<fn, email, rule, now, result, actionList>>
runVars == <<tableExists, store, fetched, inserted, rulesFile, pc, emails, rules, ei, ri, ai,
             loaded, log>>

---------------------------------------------------------------------------
(* Bounds of the model.                                                    *)

MaxConds == 2       \* conditions per rule handed to the matchers
MaxClock == 3       \* datetimes range over 0..MaxClock days
MaxRules == 2       \* rules per rules file
MaxFetch == 2       \* messages per fetched batch
MaxActions == 3     \* actions per list handed to perform_actions directly

---------------------------------------------------------------------------
(* Python values.                                                          *)

Val(t, s, n, b, o) == [t |-> t, s |-> s, n |-> n, b |-> b, o |-> o]

PyNone == Val("none", <<>>, 0, FALSE, 0)
PyStr(s) == Val("str", s, 0, FALSE, 0)
PyInt(n) == Val("int", <<>>, n, FALSE, 0)
PyBoolean(b) == Val("bool", <<>>, 0, b, 0)
\* A datetime, in days: n is its wall-clock reading; an aware one (b = TRUE)
\* carries the UTC offset o of its tzinfo, a naive one (b = FALSE) carries none.
PyDateTime(n, aware, o) == Val("datetime", <<>>, n, aware, o)

\* The point on the UTC time line an aware datetime denotes; aware datetimes
\* are ordered by it.
Instant(d) == d.n - d.o

\* datetime.astimezone() with no argument: a naive datetime is taken as local
\* time and gets the local zone; an aware one is moved to the local zone.
AsTimezone(d, localOffset) ==
    IF d.b THEN PyDateTime(Instant(d) + localOffset, TRUE, localOffset)
    ELSE PyDateTime(d.n, TRUE, localOffset)

\* bool(v): Python truthiness
Truthy(v) ==
    CASE v.t = "none" -> FALSE
      [] v.t = "str" -> Len(v.s) > 0
      [] v.t = "int" -> v.n /= 0
      [] v.t = "bool" -> v.b
      [] OTHER -> TRUE

\* a or b
PyOr(a, b) == IF Truthy(a) THEN a ELSE b

\* dict.get(key, default)
DictGet(d, key, default) == IF key \in DOMAIN d THEN d[key] ELSE default

UpperChars == <<"A", "B", "C", "D", "E", "F", "G", "H", "I", "J", "K", "L", "M",
                "N", "O", "P", "Q", "R", "S", "T", "U", "V", "W", "X", "Y", "Z">>
LowerChars == <<"a", "b", "c", "d", "e", "f", "g", "h", "i", "j", "k", "l", "m",
                "n", "o", "p", "q", "r", "s", "t", "u", "v", "w", "x", "y", "z">>

LowerChar(c) ==
    IF \E i \in 1..Len(UpperChars) : UpperChars[i] = c
    THEN LowerChars[CHOOSE i \in 1..Len(UpperChars) : UpperChars[i] = c]
    ELSE c

UpperChar(c) ==
    IF \E i \in 1..Len(LowerChars) : LowerChars[i] = c
    THEN UpperChars[CHOOSE i \in 1..Len(LowerChars) : LowerChars[i] = c]
    ELSE c

\* str.lower()
Lower(s) == [i \in 1..Len(s) |-> LowerChar(s[i])]

\* str.upper()
Upper(s) == [i \in 1..Len(s) |-> UpperChar(s[i])]

\* a in b, for strings
Contains(a, b) ==
    \E i \in 0..(Len(b) - Len(a)) : SubSeq(b, i + 1, i + Len(a)) = a

Digits == <<"0", "1", "2", "3", "4", "5", "6", "7", "8", "9">>

IsDigit(c) == \E i \in 1..Len(Digits) : Digits[i] = c

DigitVal(c) == (CHOOSE i \in 1..Len(Digits) : Digits[i] = c) - 1

RECURSIVE DigitsVal(_)
DigitsVal(s) ==
    IF Len(s) = 0 THEN 0
    ELSE 10 * DigitsVal(SubSeq(s, 1, Len(s) - 1)) + DigitVal(s[Len(s)])

\* int(v) raises TypeError on None and ValueError on a string that is not an
\* optionally signed run of digits.
IntParses(v) ==
    /\ v.t = "str"
    /\ LET body == IF Len(v.s) > 0 /\ v.s[1] \in {"-", "+"} THEN Tail(v.s) ELSE v.s
       IN  Len(body) > 0 /\ \A i \in 1..Len(body) : IsDigit(body[i])

IntOf(v) ==
    IF v.s[1] = "-" THEN 0 - DigitsVal(Tail(v.s))
    ELSE IF v.s[1] = "+" THEN DigitsVal(Tail(v.s))
    ELSE DigitsVal(v.s)

PyBool(b) == IF b THEN "True" ELSE "False"

---------------------------------------------------------------------------
(* The rule model (app/schemas.py).                                        *)

NoPredicate == "None"

\* RuleCondition: field is a str; contains, value and predicate are Optional
RuleCondition(field, contains, value, predicate) ==
    [field |-> field, contains |-> contains, value |-> value,
     predicate |-> predicate]

\* RuleAction: action is an ActionType, folder an Optional[str]
RuleAction(action, folder) == [action |-> action, folder |-> folder]

ActionType == {"move", "mark_as_read", "mark_as_unread"}

PredicateType == {"all", "any"}

Rule(predicate, conditions, actions) ==
    [predicate |-> predicate, conditions |-> conditions, actions |-> actions]

---------------------------------------------------------------------------
(* The matchers.                                                           *)

\* parse_date_condition with the comparisons made non-strict
parse_date_condition_NonStrict(email_date, condition, nowDt) ==
    IF email_date.t /= "datetime" THEN "Raise"
    ELSE IF ~IntParses(condition.value) THEN "Raise"
    ELSE LET aware == IF email_date.b THEN email_date
                      ELSE AsTimezone(email_date, nowDt.o)
             compare_date == PyDateTime(nowDt.n - IntOf(condition.value),
                                        TRUE, nowDt.o)
         IN  IF condition.predicate = "is_less_than"
             THEN PyBool(Instant(aware) <= Instant(compare_date))
             ELSE IF condition.predicate = "is_greater_than"
             THEN PyBool(Instant(aware) >= Instant(compare_date))
             ELSE "False"

\* helpers.parse_date_condition.  email_date.tzinfo raises AttributeError
\* unless email_date is a datetime; int(condition.value) raises on None and
\* on text that is no integer.
parse_date_condition(email_date, condition, nowDt) ==
    IF email_date.t /= "datetime" THEN "Raise"
    ELSE IF ~IntParses(condition.value) THEN "Raise"
    ELSE LET aware == IF email_date.b THEN email_date
                      ELSE AsTimezone(email_date, nowDt.o)
             compare_date == PyDateTime(nowDt.n - IntOf(condition.value),
                                        TRUE, nowDt.o)
         IN  IF condition.predicate = "is_less_than"
             THEN PyBool(Instant(aware) < Instant(compare_date))
             ELSE IF condition.predicate = "is_greater_than"
             THEN PyBool(Instant(aware) > Instant(compare_date))
             ELSE "False"

\* contains_test with the email's value left in its own letter case
contains_test_CaseSensitive(email_value, value) ==
    IF ~Truthy(email_value) THEN "False"
    ELSE IF ~Truthy(value) THEN "False"
    ELSE IF email_value.t /= "str" THEN "Raise"
    ELSE PyBool(Contains(Lower(value.s), email_value.s))

\* email_value and value and value.lower() in email_value.lower()
\* value is an Optional[str]; email_value is whatever the dict holds, and
\* .lower() raises AttributeError on a truthy value that is no str.
contains_test(email_value, value) ==
    IF ~Truthy(email_value) THEN "False"
    ELSE IF ~Truthy(value) THEN "False"
    ELSE IF email_value.t /= "str" THEN "Raise"
    ELSE PyBool(Contains(Lower(value.s), Lower(email_value.s)))

\* One iteration of the loop of helpers.email_matches_rule
helpers_condition(mail, condition, nowDt) ==
    LET field == condition.field
        value == PyOr(condition.value, condition.contains)
        email_value == DictGet(mail, field, PyStr(<<>>))
    IN  IF field = "date_received" /\ Truthy(value)
        THEN parse_date_condition(email_value, condition, nowDt)
        ELSE contains_test(email_value, value)

\* One iteration of the loop of email_processor.email_matches_rule
processor_condition(mail, cond) ==
    LET value == PyOr(cond.value, cond.contains)
        email_value == DictGet(mail, cond.field, PyStr(<<>>))
    IN  contains_test(email_value, value)

\* all(results) / any(results) over a list of booleans
PyAll(results) == PyBool(\A i \in 1..Len(results) : results[i] = "True")
\* any() taken for all()
PyAny_AsAll(results) == PyBool(\A i \in 1..Len(results) : results[i] = "True")

PyAny(results) == PyBool(\E i \in 1..Len(results) : results[i] = "True")

Raises(results) == \E i \in 1..Len(results) : results[i] = "Raise"

\* helpers.email_matches_rule: the list of results is built first, so a
\* condition that raises ends the call before all()/any() is reached.
helpers_email_matches_rule(mail, r, nowDt) ==
    LET results == [i \in 1..Len(r.conditions) |->
                        helpers_condition(mail, r.conditions[i], nowDt)]
    IN  IF Raises(results) THEN "Raise"
        ELSE IF r.predicate = "all" THEN PyAll(results) ELSE PyAny(results)

\* email_processor.email_matches_rule
processor_email_matches_rule(mail, r) ==
    LET results == [i \in 1..Len(r.conditions) |->
                        processor_condition(mail, r.conditions[i])]
    IN  IF Raises(results) THEN "Raise"
        ELSE IF r.predicate = "all" THEN PyAll(results)
        ELSE IF r.predicate = "any" THEN PyAny(results)
        ELSE PyAll(results)

---------------------------------------------------------------------------
(* Calls of the two matchers on arbitrary inputs (as the tests make them). *)

\* Sequences over S of length at most n
SeqUpTo(S, n) == UNION {[1..k -> S] : k \in 0..n}

MatchSubjects == {PyNone, PyStr(<<"A", "b">>), PyStr(<<"b", "1">>)}

MatchDates ==
    {PyStr(<<"b", "1">>)}
        \cup {PyDateTime(n, FALSE, 0) : n \in 0..MaxClock}
        \cup {PyDateTime(n, TRUE, 1) : n \in 0..MaxClock}

\* An email dict shaped like the tests' SAMPLE_EMAIL, without date_received
MatchEmailBase(subject) ==
    [id |-> PyInt(1), message_id |-> PyStr(<<"m", "1">>),
     sender |-> PyStr(<<"A", "b">>), subject |-> subject,
     folder |-> PyStr(<<"I", "n", "b", "o", "x">>),
     is_read |-> PyBoolean(FALSE)]

MatchEmails ==
    {MatchEmailBase(s) : s \in MatchSubjects}
        \cup {MatchEmailBase(s) @@ [date_received |-> d] :
                  s \in MatchSubjects, d \in MatchDates}

MatchConditions ==
    { RuleCondition("subject", PyStr(<<"a", "B">>), PyNone, NoPredicate),
      RuleCondition("subject", PyStr(<<"x">>), PyStr(<<"B">>), NoPredicate),
      RuleCondition("subject", PyStr(<<"b">>), PyStr(<<>>), NoPredicate),
      RuleCondition("subject", PyNone, PyNone, NoPredicate),
      RuleCondition("id", PyStr(<<"1">>), PyNone, NoPredicate),
      RuleCondition("labels", PyStr(<<"b">>), PyNone, NoPredicate),
      RuleCondition("date_received", PyNone, PyStr(<<"1">>), "is_less_than"),
      RuleCondition("date_received", PyNone, PyStr(<<"1">>), "is_greater_than"),
      RuleCondition("date_received", PyNone, PyStr(<<"1">>), NoPredicate),
      RuleCondition("date_received", PyNone, PyStr(<<"x">>), "is_less_than"),
      RuleCondition("date_received", PyStr(<<"1">>), PyNone, "is_less_than") }

\* rule.predicate as the matchers may receive it: the two PredicateType
\* values, or another string (a Rule built without validation, or with its
\* predicate assigned after validation)
MatchPredicates == PredicateType \cup {"xor"}

MatchRules ==
    {Rule(p, cs, <<>>) : p \in MatchPredicates, cs \in SeqUpTo(MatchConditions, MaxConds)}

\* datetime.now().astimezone(): aware, in the local zone
MatchNows == {PyDateTime(MaxClock - 1, TRUE, o) : o \in {0, 1}}

NoEmail == [id |-> PyNone]
NoRule == Rule("all", <<>>, <<>>)
NoNow == PyDateTime(0, TRUE, 0)

InitMatch ==
    /\ fn = "none"
    /\ email = NoEmail
    /\ rule = NoRule
    /\ now = NoNow
    /\ result = "None"
    /\ actionList = <<>>

\* A call of helpers.email_matches_rule(email, rule)
CallHelpers ==
    /\ fn = "none"
    /\ \E e \in MatchEmails, r \in MatchRules, n \in MatchNows :
        /\ fn' = "helpers"
        /\ email' = e
        /\ rule' = r
        /\ now' = n
        /\ result' = helpers_email_matches_rule(e, r, n)
        /\ UNCHANGED actionList
    /\ UNCHANGED runVars

\* A call of email_processor.email_matches_rule(email, rule)
CallProcessor ==
    /\ fn = "none"
    /\ \E e \in MatchEmails, r \in MatchRules :
        /\ fn' = "processor"
        /\ email' = e
        /\ rule' = r
        /\ now' = NoNow
        /\ result' = processor_email_matches_rule(e, r)
        /\ UNCHANGED actionList
    /\ UNCHANGED runVars

MatchNext == CallHelpers \/ CallProcessor

---------------------------------------------------------------------------
(* The store (app/db/database.py, app/db/queries.py).                      *)

sINBOX == <<"I", "N", "B", "O", "X">>
sImportantUrgent == <<"I", "m", "p", "o", "r", "t", "a", "n", "t", "/", "U", "r", "g", "e", "n", "t">>
sArchive == <<"A", "r", "c", "h", "i", "v", "e">>
sOld == <<"O", "l", "d">>

\* cursor.rowcount of "UPDATE emails ... WHERE message_id = ?"
RowCount(st, message_id) ==
    Cardinality({i \in 1..Len(st) : st[i].message_id = message_id})

\* insert_email: the UNIQUE constraint on message_id raises IntegrityError,
\* which is caught; otherwise the row is appended with the next rowid and
\* is_read is stored as 0 or 1.
insert_email_ok(st, message_id) == RowCount(st, message_id) = 0

\* insert_email as INSERT OR REPLACE: a stored message_id gets the new values
insert_email_Replace(st, message_id, sender, subject, date, snippet, folder, is_read) ==
    IF insert_email_ok(st, message_id)
    THEN Append(st, [id |-> PyInt(Len(st) + 1), message_id |-> message_id,
                     sender |-> sender, subject |-> subject, date |-> date,
                     snippet |-> snippet, folder |-> folder,
                     is_read |-> PyInt(IF Truthy(is_read) THEN 1 ELSE 0)])
    ELSE [i \in 1..Len(st) |->
            IF st[i].message_id = message_id
            THEN [st[i] EXCEPT !.sender = sender, !.subject = subject,
                               !.date = date, !.snippet = snippet,
                               !.folder = folder,
                               !.is_read = PyInt(IF Truthy(is_read) THEN 1 ELSE 0)]
            ELSE st[i]]

insert_email(st, message_id, sender, subject, date, snippet, folder, is_read) ==
    IF insert_email_ok(st, message_id)
    THEN Append(st, [id |-> PyInt(Len(st) + 1), message_id |-> message_id,
                     sender |-> sender, subject |-> subject, date |-> date,
                     snippet |-> snippet, folder |-> folder,
                     is_read |-> PyInt(IF Truthy(is_read) THEN 1 ELSE 0)])
    ELSE st

\* get_all_emails: one dict per row, in rowid order, is_read through bool()
get_all_emails(st) ==
    [i \in 1..Len(st) |->
        [id |-> st[i].id, message_id |-> st[i].message_id,
         sender |-> st[i].sender, subject |-> st[i].subject,
         date |-> st[i].date, snippet |-> st[i].snippet,
         folder |-> st[i].folder, is_read |-> PyBoolean(Truthy(st[i].is_read))]]

\* update_email_folder without its WHERE clause
update_email_folder_AllRows(st, message_id, folder) ==
    [i \in 1..Len(st) |-> [st[i] EXCEPT !.folder = folder]]

\* update_email_folder: UPDATE emails SET folder = ? WHERE message_id = ?
update_email_folder(st, message_id, folder) ==
    [i \in 1..Len(st) |->
        IF st[i].message_id = message_id
        THEN [st[i] EXCEPT !.folder = folder] ELSE st[i]]

\* update_email_read_status with the stored flag inverted
update_email_read_status_Inverted(st, message_id, is_read) ==
    [i \in 1..Len(st) |->
        IF st[i].message_id = message_id
        THEN [st[i] EXCEPT !.is_read = PyInt(IF is_read THEN 0 ELSE 1)]
        ELSE st[i]]

\* update_email_read_status flipping the stored flag instead of setting it
update_email_read_status_Toggle(st, message_id, is_read) ==
    [i \in 1..Len(st) |->
        IF st[i].message_id = message_id
        THEN [st[i] EXCEPT !.is_read = PyInt(IF Truthy(st[i].is_read) THEN 0 ELSE 1)]
        ELSE st[i]]

\* update_email_read_status: UPDATE emails SET is_read = ? WHERE message_id = ?
update_email_read_status(st, message_id, is_read) ==
    [i \in 1..Len(st) |->
        IF st[i].message_id = message_id
        THEN [st[i] EXCEPT !.is_read = PyInt(IF is_read THEN 1 ELSE 0)]
        ELSE st[i]]

---------------------------------------------------------------------------
(* The action dispatcher (perform_actions; the copies in helpers.py and    *)
(* email_processor.py are the same text).                                  *)

\* What a run does, in order: a line printed, a call of a store function
\* with its return value, or a (message, rule) pair handed to the matcher.
Event(k, what, id, arg, ret, e, r) ==
    [k |-> k, what |-> what, id |-> id, arg |-> arg, ret |-> ret, e |-> e, r |-> r]

Printed(what, id, arg) == Event("print", what, id, arg, FALSE, 0, 0)
Called(what, id, arg, ret) == Event("call", what, id, arg, ret, 0, 0)
Checked(e, r, m) == Event("check", m, PyNone, PyNone, FALSE, e, r)

NoFolderMessage == "No folder specified for move action"

\* perform_action without the check for a folder
perform_action_NoFolderCheck(st, mail, action) ==
    IF action.action = "move"
    THEN [store |-> update_email_folder(st, mail.message_id, action.folder),
          events |-> <<Printed("Moving email", mail.message_id, action.folder),
                       Called("update_email_folder", mail.message_id,
                              action.folder, RowCount(st, mail.message_id) > 0)>>]
    ELSE IF action.action = "mark_as_read"
    THEN [store |-> update_email_read_status(st, mail.message_id, TRUE),
          events |-> <<Printed("Marking email as read", mail.message_id, PyNone),
                       Called("update_email_read_status", mail.message_id,
                              PyBoolean(TRUE), RowCount(st, mail.message_id) > 0)>>]
    ELSE IF action.action = "mark_as_unread"
    THEN [store |-> update_email_read_status(st, mail.message_id, FALSE),
          events |-> <<Printed("Marking email as unread", mail.message_id, PyNone),
                       Called("update_email_read_status", mail.message_id,
                              PyBoolean(FALSE), RowCount(st, mail.message_id) > 0)>>]
    ELSE [store |-> st, events |-> <<>>]

\* One iteration of the loop of perform_actions: the store it leaves and
\* the events it adds.
perform_action(st, mail, action) ==
    IF action.action = "move"
    THEN IF ~Truthy(action.folder)
         THEN [store |-> st, events |-> <<Printed(NoFolderMessage, PyNone, PyNone)>>]
         ELSE [store |-> update_email_folder(st, mail.message_id, action.folder),
               events |-> <<Printed("Moving email", mail.message_id, action.folder),
                            Called("update_email_folder", mail.message_id,
                                   action.folder,
                                   RowCount(st, mail.message_id) > 0)>>]
    ELSE IF action.action = "mark_as_read"
    THEN [store |-> update_email_read_status(st, mail.message_id, TRUE),
          events |-> <<Printed("Marking email as read", mail.message_id, PyNone),
                       Called("update_email_read_status", mail.message_id,
                              PyBoolean(TRUE), RowCount(st, mail.message_id) > 0)>>]
    ELSE IF action.action = "mark_as_unread"
    THEN [store |-> update_email_read_status(st, mail.message_id, FALSE),
          events |-> <<Printed("Marking email as unread", mail.message_id, PyNone),
                       Called("update_email_read_status", mail.message_id,
                              PyBoolean(FALSE), RowCount(st, mail.message_id) > 0)>>]
    ELSE [store |-> st, events |-> <<>>]

\* perform_actions going through the actions last to first
RECURSIVE perform_actions_Reversed(_, _, _)
perform_actions_Reversed(st, mail, actions) ==
    IF Len(actions) = 0 THEN [store |-> st, events |-> <<>>]
    ELSE LET first == perform_action(st, mail, actions[Len(actions)])
             rest == perform_actions_Reversed(first.store, mail,
                                              SubSeq(actions, 1, Len(actions) - 1))
         IN  [store |-> rest.store, events |-> first.events \o rest.events]

\* perform_actions(email, actions): the loop over the actions, in order
RECURSIVE perform_actions(_, _, _)
perform_actions(st, mail, actions) ==
    IF Len(actions) = 0 THEN [store |-> st, events |-> <<>>]
    ELSE LET first == perform_action(st, mail, Head(actions))
             rest == perform_actions(first.store, mail, Tail(actions))
         IN  [store |-> rest.store, events |-> first.events \o rest.events]

---------------------------------------------------------------------------
(* The rules loader (load_rules; the same text in both modules) and the    *)
(* pydantic models it validates against (app/schemas.py).                  *)

\* A rules file: absent, or present with text that is JSON or is not.  A JSON
\* document is a dict; a dict is a function on the keys it holds.
RulesFile(exists, is_json, doc) == [exists |-> exists, is_json |-> is_json, doc |-> doc]

MissingFile == RulesFile(FALSE, FALSE, <<>>)
GarbageFile == RulesFile(TRUE, FALSE, <<>>)
JsonFile(doc) == RulesFile(TRUE, TRUE, doc)

OptionalStr(d, key) == key \notin DOMAIN d \/ d[key].t \in {"str", "none"}

\* RuleCondition.model_validate: field is required, the rest is optional
ValidCondition(c) ==
    /\ "field" \in DOMAIN c
    /\ OptionalStr(c, "contains")
    /\ OptionalStr(c, "value")

ToCondition(c) ==
    RuleCondition(c.field, DictGet(c, "contains", PyNone),
                  DictGet(c, "value", PyNone), DictGet(c, "predicate", NoPredicate))

\* RuleAction.model_validate: action is required and an ActionType
ValidAction(a) ==
    /\ "action" \in DOMAIN a
    /\ a.action \in ActionType
    /\ OptionalStr(a, "folder")

ToAction(a) == RuleAction(a.action, DictGet(a, "folder", PyNone))

\* Rule.model_validate with predicate declared a plain str
ValidRule_AnyPredicate(r) ==
    /\ {"predicate", "conditions", "actions"} \subseteq DOMAIN r
    /\ \A i \in 1..Len(r.conditions) : ValidCondition(r.conditions[i])
    /\ \A i \in 1..Len(r.actions) : ValidAction(r.actions[i])

\* Rule.model_validate: the three fields are required, predicate a PredicateType
ValidRule(r) ==
    /\ {"predicate", "conditions", "actions"} \subseteq DOMAIN r
    /\ r.predicate \in PredicateType
    /\ \A i \in 1..Len(r.conditions) : ValidCondition(r.conditions[i])
    /\ \A i \in 1..Len(r.actions) : ValidAction(r.actions[i])

ToRule(r) ==
    Rule(r.predicate,
         [i \in 1..Len(r.conditions) |-> ToCondition(r.conditions[i])],
         [i \in 1..Len(r.actions) |-> ToAction(r.actions[i])])

\* Rules.model_validate
ValidRules(doc) ==
    /\ "rules" \in DOMAIN doc
    /\ \A i \in 1..Len(doc.rules) : ValidRule(doc.rules[i])

\* load_rules(rules_file): what it returns, or the exception it raises
load_rules(file) ==
    IF ~file.exists THEN [exc |-> "none", rules |-> <<>>]
    ELSE IF ~file.is_json THEN [exc |-> "JSONDecodeError", rules |-> <<>>]
    ELSE IF ~ValidRules(file.doc) THEN [exc |-> "ValidationError", rules |-> <<>>]
    ELSE [exc |-> "none",
          rules |-> [i \in 1..Len(file.doc.rules) |-> ToRule(file.doc.rules[i])]]

---------------------------------------------------------------------------
(* Fetching and processing (app/email_processor.py).                       *)

sBoss == <<"b", "o", "s", "s", "@", "e", "x", "a", "m", "p", "l", "e", ".", "c", "o", "m">>
sUrgentMeetingNow == <<"U", "R", "G", "E", "N", "T", ":", " ", "M", "e", "e", "t", "i", "n", "g", " ", "N", "o", "w">>
sURGENT == <<"U", "R", "G", "E", "N", "T">>
sImportant == <<"I", "m", "p", "o", "r", "t", "a", "n", "t">>
sLowerImportant == <<"i", "m", "p", "o", "r", "t", "a", "n", "t">>
sLowerUrgent == <<"u", "r", "g", "e", "n", "t">>
sTrue == <<"t", "r", "u", "e">>
sSeven == <<"7">>
sDate == <<"M", "o", "n">>
sSnippet == <<"H", "i">>
sM1 == <<"m", "1">>
sM2 == <<"m", "2">>

\* What GmailManager.fetch_emails can return: dicts with the five keys
\* _get_email_details builds; a header that is absent leaves None.
GmailMessages ==
    { [message_id |-> PyStr(sM1), sender |-> PyStr(sBoss),
       subject |-> PyStr(sUrgentMeetingNow), date |-> PyStr(sDate),
       snippet |-> PyStr(sSnippet)],
      [message_id |-> PyStr(sM2), sender |-> PyNone,
       subject |-> PyStr(sImportant), date |-> PyNone,
       snippet |-> PyStr(sSnippet)] }

\* The loop of fetch_and_store_emails over the fetched messages
RECURSIVE store_emails(_, _)
store_emails(st, email_messages) ==
    IF Len(email_messages) = 0 THEN st
    ELSE LET m == Head(email_messages)
         IN  store_emails(
                 insert_email(st, m.message_id, m.sender, m.subject, m.date,
                              m.snippet, DictGet(m, "folder", PyStr(sINBOX)),
                              DictGet(m, "is_read", PyBoolean(FALSE))),
                 Tail(email_messages))

\* What insert_email returns for each fetched message, in order
insert_results(st, email_messages) ==
    [k \in 1..Len(email_messages) |->
        insert_email_ok(store_emails(st, SubSeq(email_messages, 1, k - 1)),
                        email_messages[k].message_id)]

Stopped == {"idle", "done", "crashed", "interrupted"}

\* fetch_and_store_emails(): nothing is done for an empty fetch; otherwise
\* init_db() creates the table and every message is inserted.
FetchAndStoreEmails ==
    /\ pc \in Stopped
    /\ \E email_messages \in SeqUpTo(GmailMessages, MaxFetch) :
        /\ fetched' = email_messages
        /\ inserted' = insert_results(store, email_messages)
        /\ IF Len(email_messages) = 0
           THEN UNCHANGED <<tableExists, store>>
           ELSE /\ tableExists' = TRUE
                /\ store' = store_emails(store, email_messages)
    /\ UNCHANGED <<rulesFile, pc, emails, rules, ei, ri, ai, loaded, log>>
    /\ UNCHANGED callVars

NoRulesMessage == "No rules to process."
NoMatchMessage == "No rules matched with any email"

\* rules_matched at the end of the loops
RulesMatched(lg) == \E i \in 1..Len(lg) : lg[i].k = "check" /\ lg[i].what = "True"

\* The end of process_emails, after the loops
Finish(lg) ==
    IF RulesMatched(lg) THEN lg
    ELSE Append(lg, Printed(NoMatchMessage, PyNone, PyNone))

\* process_emails() up to its loops: get_all_emails() raises when the table
\* does not exist, load_rules() may raise, no rules end the run.
ProcessStart ==
    /\ pc \in Stopped
    /\ ei' = 1 /\ ri' = 1 /\ ai' = 1
    /\ IF ~tableExists
       THEN /\ pc' = "crashed"
            /\ emails' = <<>> /\ rules' = <<>>
            /\ loaded' = "not_called"
            /\ log' = <<>>
       ELSE LET got == load_rules(rulesFile)
            IN  /\ emails' = get_all_emails(store)
                /\ rules' = got.rules
                /\ loaded' = got.exc
                /\ IF got.exc /= "none"
                   THEN pc' = "crashed" /\ log' = <<>>
                   ELSE IF Len(got.rules) = 0
                   THEN /\ pc' = "done"
                        /\ log' = <<Printed(NoRulesMessage, PyNone, PyNone)>>
                   ELSE IF Len(store) = 0
                   THEN pc' = "done" /\ log' = Finish(<<>>)
                   ELSE pc' = "match" /\ log' = <<>>
    /\ UNCHANGED <<tableExists, store, fetched, inserted, rulesFile>>
    /\ UNCHANGED callVars

\* The loops' step to the next rule, the next email, or the end
NextPair(lg) ==
    /\ ai' = 1
    /\ IF ri < Len(rules)
       THEN pc' = "match" /\ ri' = ri + 1 /\ ei' = ei /\ log' = lg
       ELSE IF ei < Len(emails)
       THEN pc' = "match" /\ ri' = 1 /\ ei' = ei + 1 /\ log' = lg
       ELSE pc' = "done" /\ ri' = ri /\ ei' = ei /\ log' = Finish(lg)

\* CheckRule reading the message from the store again for every rule
CheckRule_Fresh ==
    /\ pc = "match"
    /\ LET m == processor_email_matches_rule(get_all_emails(store)[ei], rules[ri])
           lg == Append(log, Checked(ei, ri, m))
       IN  IF m = "Raise"
           THEN pc' = "crashed" /\ log' = lg /\ UNCHANGED <<ei, ri, ai>>
           ELSE IF m = "True" /\ Len(rules[ri].actions) > 0
           THEN pc' = "act" /\ ai' = 1 /\ log' = lg /\ UNCHANGED <<ei, ri>>
           ELSE NextPair(lg)
    /\ UNCHANGED <<tableExists, store, fetched, inserted, rulesFile, emails,
                   rules, loaded>>
    /\ UNCHANGED callVars

\* if email_matches_rule(email, rule): for the current email and rule
CheckRule ==
    /\ pc = "match"
    /\ LET m == processor_email_matches_rule(emails[ei], rules[ri])
           lg == Append(log, Checked(ei, ri, m))
       IN  IF m = "Raise"
           THEN pc' = "crashed" /\ log' = lg /\ UNCHANGED <<ei, ri, ai>>
           ELSE IF m = "True" /\ Len(rules[ri].actions) > 0
           THEN pc' = "act" /\ ai' = 1 /\ log' = lg /\ UNCHANGED <<ei, ri>>
           ELSE NextPair(lg)
    /\ UNCHANGED <<tableExists, store, fetched, inserted, rulesFile, emails,
                   rules, loaded>>
    /\ UNCHANGED callVars

\* DoAction issuing the store call of its action twice
DoAction_Retry ==
    /\ pc = "act"
    /\ LET done == perform_action(store, emails[ei], rules[ri].actions[ai])
           again == perform_action(done.store, emails[ei], rules[ri].actions[ai])
           lg == log \o done.events \o again.events
       IN  /\ store' = again.store
           /\ IF ai < Len(rules[ri].actions)
              THEN pc' = "act" /\ ai' = ai + 1 /\ log' = lg /\ UNCHANGED <<ei, ri>>
              ELSE NextPair(lg)
    /\ UNCHANGED <<tableExists, fetched, inserted, rulesFile, emails, rules,
                   loaded>>
    /\ UNCHANGED callVars

\* One action of perform_actions(email, rule.actions) for the matched pair
DoAction ==
    /\ pc = "act"
    /\ LET done == perform_action(store, emails[ei], rules[ri].actions[ai])
           lg == log \o done.events
       IN  /\ store' = done.store
           /\ IF ai < Len(rules[ri].actions)
              THEN pc' = "act" /\ ai' = ai + 1 /\ log' = lg /\ UNCHANGED <<ei, ri>>
              ELSE NextPair(lg)
    /\ UNCHANGED <<tableExists, fetched, inserted, rulesFile, emails, rules,
                   loaded>>
    /\ UNCHANGED callVars

---------------------------------------------------------------------------
(* Rules files.                                                            *)

\* rules[0] of the tests' SAMPLE_RULES_JSON
SampleRule ==
    [predicate |-> "all",
     conditions |-> << [field |-> "subject", contains |-> PyStr(sURGENT)],
                       [field |-> "sender", contains |-> PyStr(sBoss)] >>,
     actions |-> << [action |-> "mark_as_read"],
                    [action |-> "move", folder |-> PyStr(sImportantUrgent)] >>]

\* Either word in the subject; a move that names no folder, then mark unread
EitherWordRule ==
    [predicate |-> "any",
     conditions |-> << [field |-> "subject", contains |-> PyStr(sLowerImportant)],
                       [field |-> "subject", contains |-> PyStr(sLowerUrgent)] >>,
     actions |-> << [action |-> "move"], [action |-> "mark_as_unread"] >>]

\* A condition on the folder column
FolderRule ==
    [predicate |-> "all",
     conditions |-> << [field |-> "folder", contains |-> PyStr(sLowerImportant)] >>,
     actions |-> << [action |-> "move", folder |-> PyStr(sArchive)] >>]

\* rules[1] of SAMPLE_RULES_JSON: a relative-date condition
OldMailRule ==
    [predicate |-> "all",
     conditions |-> << [field |-> "date_received", predicate |-> "is_less_than",
                        value |-> PyStr(sSeven)] >>,
     actions |-> << [action |-> "move", folder |-> PyStr(sOld)] >>]

\* A condition on the is_read column
ReadRule ==
    [predicate |-> "all",
     conditions |-> << [field |-> "is_read", contains |-> PyStr(sTrue)] >>,
     actions |-> << [action |-> "mark_as_unread"] >>]

ConformingRules == {SampleRule, EitherWordRule, FolderRule, OldMailRule, ReadRule}

\* The predicate of the example in the docstring of email_matches_rule
AndRule == [SampleRule EXCEPT !.predicate = "and"]

NonConformingRules ==
    { AndRule,
      [conditions |-> SampleRule.conditions, actions |-> SampleRule.actions],
      [predicate |-> "all", actions |-> SampleRule.actions],
      [predicate |-> "all", conditions |-> SampleRule.conditions],
      [SampleRule EXCEPT !.actions = << [action |-> "archive"] >>],
      [SampleRule EXCEPT !.actions = << [folder |-> PyStr(sArchive)] >>],
      [SampleRule EXCEPT !.conditions = << [contains |-> PyStr(sURGENT)] >>],
      [OldMailRule EXCEPT !.conditions =
          << [field |-> "date_received", predicate |-> "is_less_than",
              value |-> PyInt(7)] >>] }

\* Relative-date conditions whose day count int() cannot convert: a value
\* that is not a number, and a count given under contains with no value
DayCountRules ==
    { [OldMailRule EXCEPT !.conditions =
          << [field |-> "date_received", predicate |-> "is_less_than",
              value |-> PyStr(sDate)] >>],
      [OldMailRule EXCEPT !.conditions =
          << [field |-> "date_received", predicate |-> "is_less_than",
              contains |-> PyStr(sSeven)] >>] }

\* The files process_emails is run on
RunFiles ==
    {MissingFile, GarbageFile, JsonFile([rules |-> <<AndRule>>])}
        \cup {JsonFile([rules |-> rs]) : rs \in SeqUpTo(ConformingRules, MaxRules)}

\* The files load_rules is called on directly
LoadFiles ==
    {MissingFile, GarbageFile, JsonFile([version |-> PyInt(1)])}
        \cup {JsonFile([rules |-> rs]) :
                 rs \in SeqUpTo(ConformingRules \cup NonConformingRules
                                    \cup DayCountRules, MaxRules)}

---------------------------------------------------------------------------
(* The program: fetch and process runs on one store and one rules file.    *)

InitRun ==
    /\ tableExists = FALSE
    /\ store = <<>>
    /\ fetched = <<>>
    /\ inserted = <<>>
    /\ pc = "idle"
    /\ emails = <<>>
    /\ rules = <<>>
    /\ ei = 1 /\ ri = 1 /\ ai = 1
    /\ loaded = "not_called"
    /\ log = <<>>

Init ==
    /\ InitMatch
    /\ InitRun
    /\ rulesFile \in RunFiles

Next == FetchAndStoreEmails \/ ProcessStart \/ CheckRule \/ DoAction

Spec == Init /\ [][Next]_vars

---------------------------------------------------------------------------
(* Direct calls of the matchers.                                           *)

InitMatchSpec ==
    /\ InitMatch
    /\ InitRun
    /\ rulesFile = MissingFile

MatchSpec == InitMatchSpec /\ [][MatchNext]_vars

---------------------------------------------------------------------------
(* Direct calls of load_rules.                                             *)

CallLoadRules ==
    /\ fn = "none"
    /\ \E file \in LoadFiles :
        LET got == load_rules(file)
        IN  /\ fn' = "load_rules"
            /\ rulesFile' = file
            /\ loaded' = got.exc
            /\ rules' = got.rules
    /\ UNCHANGED <<email, rule, now, result, actionList>>
    /\ UNCHANGED <<tableExists, store, fetched, inserted, pc, emails, ei, ri,
                   ai, log>>

LoadNext == CallLoadRules

LoadSpec == InitMatchSpec /\ [][LoadNext]_vars

---------------------------------------------------------------------------
(* Direct calls of perform_actions on a store.                             *)

\* Stores a fetch leaves, and the same after m1 was moved and marked read
ActStores ==
    LET fresh == {store_emails(<<>>, b) : b \in SeqUpTo(GmailMessages, MaxFetch)}
    IN  fresh \cup
        {update_email_read_status(
             update_email_folder(st, PyStr(sM1), PyStr(sArchive)),
             PyStr(sM1), TRUE) : st \in fresh}

\* The tests' SAMPLE_EMAIL, which no store holds
sTest123 == <<"t", "e", "s", "t", "1", "2", "3">>
SampleEmail ==
    [id |-> PyInt(1), message_id |-> PyStr(sTest123), sender |-> PyStr(sBoss),
     subject |-> PyStr(sUrgentMeetingNow), date |-> PyNone,
     snippet |-> PyStr(sSnippet), folder |-> PyStr(sINBOX),
     is_read |-> PyBoolean(FALSE)]

ActEmails(st) ==
    {SampleEmail} \cup {get_all_emails(st)[i] : i \in 1..Len(st)}

ActActions ==
    { RuleAction("move", PyStr(sImportantUrgent)),
      RuleAction("move", PyStr(sArchive)),
      RuleAction("move", PyNone),
      RuleAction("move", PyStr(<<>>)),
      RuleAction("mark_as_read", PyNone),
      RuleAction("mark_as_unread", PyNone),
      \* a kind outside ActionType (a RuleAction built without validation)
      RuleAction("archive", PyNone) }

InitActSpec ==
    /\ InitMatch
    /\ tableExists = TRUE
    /\ store \in ActStores
    /\ fetched = <<>>
    /\ inserted = <<>>
    /\ rulesFile = MissingFile
    /\ pc = "idle"
    /\ emails = <<>>
    /\ rules = <<>>
    /\ ei = 1 /\ ri = 1 /\ ai = 1
    /\ loaded = "not_called"
    /\ log = <<>>

CallPerformActions ==
    /\ fn = "none"
    /\ \E e \in ActEmails(store), as \in SeqUpTo(ActActions, MaxActions) :
        LET done == perform_actions(store, e, as)
        IN  /\ fn' = "perform_actions"
            /\ email' = e
            /\ actionList' = as
            /\ store' = done.store
            /\ log' = done.events
    /\ UNCHANGED <<rule, now, result>>
    /\ UNCHANGED <<tableExists, fetched, inserted, rulesFile, pc, emails, rules,
                   ei, ri, ai, loaded>>

\* perform_actions(email, actions) called a second time, with the arguments
\* of the first call, on the store the first call left
CallPerformActionsAgain ==
    /\ fn = "perform_actions"
    /\ LET done == perform_actions(store, email, actionList)
       IN  /\ fn' = "perform_actions_again"
           /\ store' = done.store
           /\ log' = done.events
    /\ UNCHANGED <<email, rule, now, result, actionList>>
    /\ UNCHANGED <<tableExists, fetched, inserted, rulesFile, pc, emails, rules,
                   ei, ri, ai, loaded>>

ActNext == CallPerformActions \/ CallPerformActionsAgain

ActSpec == InitActSpec /\ [][ActNext]_vars

---------------------------------------------------------------------------
(* Process runs on a store that can fail: an UPDATE that raises            *)
(* sqlite3.Error, a row that another user of the database deletes while    *)
(* the run goes on, and a run that is interrupted.                         *)

\* The actions for which perform_actions calls the store
WritesStore(action) ==
    \/ action.action = "move" /\ Truthy(action.folder)
    \/ action.action \in {"mark_as_read", "mark_as_unread"}

\* One iteration of perform_actions in which the UPDATE raises
\* sqlite3.Error: the except clause of update_email_folder /
\* update_email_read_status prints the error and returns False; nothing is
\* committed.
perform_action_db_error(st, mail, action) ==
    IF action.action = "move"
    THEN [store |-> st,
          events |-> <<Printed("Moving email", mail.message_id, action.folder),
                       Printed("Error updating email folder", mail.message_id, PyNone),
                       Called("update_email_folder", mail.message_id,
                              action.folder, FALSE)>>]
    ELSE [store |-> st,
          events |-> <<Printed(IF action.action = "mark_as_read"
                               THEN "Marking email as read"
                               ELSE "Marking email as unread",
                               mail.message_id, PyNone),
                       Printed("Error updating email read status",
                               mail.message_id, PyNone),
                       Called("update_email_read_status", mail.message_id,
                              PyBoolean(action.action = "mark_as_read"), FALSE)>>]

\* The same iteration with the error left to propagate out of the run
DoActionDbError_Raises ==
    /\ pc = "act"
    /\ WritesStore(rules[ri].actions[ai])
    /\ pc' = "crashed"
    /\ log' = log \o perform_action_db_error(store, emails[ei],
                                             rules[ri].actions[ai]).events
    /\ UNCHANGED <<ei, ri, ai>>
    /\ UNCHANGED <<tableExists, store, fetched, inserted, rulesFile, emails, rules,
                   loaded>>
    /\ UNCHANGED callVars

\* One action of perform_actions(email, rule.actions) whose store call fails
\* with sqlite3.Error
DoActionDbError ==
    /\ pc = "act"
    /\ WritesStore(rules[ri].actions[ai])
    /\ LET done == perform_action_db_error(store, emails[ei], rules[ri].actions[ai])
           lg == log \o done.events
       IN  /\ store' = done.store
           /\ IF ai < Len(rules[ri].actions)
              THEN pc' = "act" /\ ai' = ai + 1 /\ log' = lg /\ UNCHANGED <<ei, ri>>
              ELSE NextPair(lg)
    /\ UNCHANGED <<tableExists, fetched, inserted, rulesFile, emails, rules,
                   loaded>>
    /\ UNCHANGED callVars

\* Another user of emails.db deletes a row while the run goes on
StoreLosesRow ==
    /\ pc \in {"match", "act"}
    /\ \E i \in 1..Len(store) :
          store' = SubSeq(store, 1, i - 1) \o SubSeq(store, i + 1, Len(store))
    /\ UNCHANGED <<tableExists, fetched, inserted, rulesFile, pc, emails, rules,
                   ei, ri, ai, loaded, log>>
    /\ UNCHANGED callVars

\* The process is interrupted (KeyboardInterrupt, kill) between two steps
Interrupt ==
    /\ pc \in {"match", "act"}
    /\ pc' = "interrupted"
    /\ UNCHANGED <<tableExists, store, fetched, inserted, rulesFile, emails, rules,
                   ei, ri, ai, loaded, log>>
    /\ UNCHANGED callVars

InitFaultSpec ==
    /\ InitMatch
    /\ tableExists = TRUE
    /\ store \in {store_emails(<<>>, b) : b \in SeqUpTo(GmailMessages, MaxFetch)}
    /\ fetched = <<>>
    /\ inserted = <<>>
    /\ rulesFile \in RunFiles
    /\ pc = "idle"
    /\ emails = <<>>
    /\ rules = <<>>
    /\ ei = 1 /\ ri = 1 /\ ai = 1
    /\ loaded = "not_called"
    /\ log = <<>>

FaultNext ==
    ProcessStart \/ CheckRule \/ DoAction \/ DoActionDbError \/ StoreLosesRow
        \/ Interrupt

FaultSpec == InitFaultSpec /\ [][FaultNext]_vars

---------------------------------------------------------------------------
(* Claims about the matchers, checked under MatchSpec.                     *)

Called_matcher == fn \in {"helpers", "processor"}

\* The result of the i-th condition of the rule in the call under evaluation
ConditionResult(i) ==
    IF fn = "helpers" THEN helpers_condition(email, rule.conditions[i], now)
    ELSE processor_condition(email, rule.conditions[i])

ConditionIndices == 1..Len(rule.conditions)

\* C1: whenever every condition of the rule evaluates to a boolean,
\* email_matches_rule returns the AND of the per-condition results under
\* predicate ALL and their OR under ANY; with no conditions it returns True
\* under ALL and False under ANY.
C1_AllAnyCombination ==
    (Called_matcher /\ \A i \in ConditionIndices : ConditionResult(i) /= "Raise")
    => /\ rule.predicate = "all" =>
            (result = "True" <=> \A i \in ConditionIndices : ConditionResult(i) = "True")
       /\ rule.predicate = "any" =>
            (result = "True" <=> \E i \in ConditionIndices : ConditionResult(i) = "True")
       /\ result \in {"True", "False"}
       /\ (Len(rule.conditions) = 0 /\ rule.predicate \in PredicateType) =>
            result = (IF rule.predicate = "all" THEN "True" ELSE "False")

\* An ANY rule of two conditions, one true and one false, that matched
C1_Witness ==
    /\ fn = "helpers"
    /\ rule.predicate = "any"
    /\ Len(rule.conditions) = 2
    /\ ConditionResult(1) = "False"
    /\ ConditionResult(2) = "True"
    /\ result = "True"

\* The condition is handled by the substring branch of the matcher
TextMode(c) ==
    \/ fn = "processor"
    \/ ~(c.field = "date_received" /\ Truthy(PyOr(c.value, c.contains)))

\* condition.value when it is set (a non-empty string), else condition.contains
EffectiveValue(c) ==
    IF c.value.t = "str" /\ Len(c.value.s) > 0 THEN c.value ELSE c.contains

NonEmptyStr(v) == v.t = "str" /\ Len(v.s) > 0

ConditionOn(mail, c) ==
    IF fn = "helpers" THEN helpers_condition(mail, c, now)
    ELSE processor_condition(mail, c)

\* The three renderings of a string's letter case
CaseChanges(v) ==
    IF v.t = "str" THEN {v, PyStr(Lower(v.s)), PyStr(Upper(v.s))} ELSE {v}

\* The email with the letter case of one field's value changed
EmailsCaseChanged(mail, field) ==
    IF field \in DOMAIN mail
    THEN {[mail EXCEPT ![field] = v] : v \in CaseChanges(mail[field])}
    ELSE {mail}

ConditionsCaseChanged(c) ==
    {[c EXCEPT !.value = v, !.contains = w] :
        v \in CaseChanges(c.value), w \in CaseChanges(c.contains)}

\* C2: a text-contains condition is true iff its effective value and the
\* message's value for its field are both non-empty strings and the
\* lower-cased effective value is a substring of the lower-cased field
\* value; changing the letter case of either operand never changes the
\* result, and a missing field or missing value gives False.  Stated of every call whose rule is one such condition, where
\* the call returns what the condition evaluates to.
C2_ContainsCaseInsensitive ==
    (Called_matcher /\ Len(rule.conditions) = 1 /\ TextMode(rule.conditions[1]))
    => LET c == rule.conditions[1]
           fieldValue == DictGet(email, c.field, PyStr(<<>>))
           value == EffectiveValue(c)
           holds == /\ NonEmptyStr(value)
                    /\ NonEmptyStr(fieldValue)
                    /\ \E k \in 0..(Len(fieldValue.s) - Len(value.s)) :
                          \A j \in 1..Len(value.s) :
                              LowerChar(value.s[j]) = LowerChar(fieldValue.s[k + j])
       IN  /\ result = "True" <=> holds
           /\ (c.field \notin DOMAIN email \/ ~NonEmptyStr(value)) => result = "False"
           /\ \A m2 \in EmailsCaseChanged(email, c.field),
                 c2 \in ConditionsCaseChanged(c) :
                  ConditionOn(m2, c2) = result

\* A one-condition rule whose value differs from the subject in letter case
\* only, and matched
C2_Witness ==
    /\ fn = "helpers"
    /\ Len(rule.conditions) = 1
    /\ rule.conditions[1].field = "subject"
    /\ rule.conditions[1].contains = PyStr(<<"a", "B">>)
    /\ email.subject = PyStr(<<"A", "b">>)
    /\ result = "True"

\* The call is helpers.email_matches_rule on a rule of one relative-date
\* condition with an integer day count, on a message that has a datetime
DateCall ==
    /\ fn = "helpers"
    /\ Len(rule.conditions) = 1
    /\ rule.conditions[1].field = "date_received"
    /\ IntParses(rule.conditions[1].value)
    /\ "date_received" \in DOMAIN email
    /\ email.date_received.t = "datetime"

\* received_at on the UTC time line: a naive datetime is local time
ReceivedAt == email.date_received.n -
                 (IF email.date_received.b THEN email.date_received.o ELSE now.o)

\* now - N days, on the UTC time line
Cutoff == (now.n - now.o) - IntOf(rule.conditions[1].value)

WithPredicate(p) == [rule.conditions[1] EXCEPT !.predicate = p]

\* C3: with cutoff = now - N days, is_less_than is true exactly when
\* received_at < cutoff, is_greater_than exactly when received_at > cutoff,
\* any other predicate gives false; the two are never both true and are
\* both false when received_at equals the cutoff.
C3_RelativeDateStrict ==
    DateCall =>
        /\ rule.conditions[1].predicate = "is_less_than" =>
              (result = PyBool(ReceivedAt < Cutoff))
        /\ rule.conditions[1].predicate = "is_greater_than" =>
              (result = PyBool(ReceivedAt > Cutoff))
        /\ rule.conditions[1].predicate \notin {"is_less_than", "is_greater_than"} =>
              result = "False"
        /\ ~(/\ helpers_condition(email, WithPredicate("is_less_than"), now) = "True"
             /\ helpers_condition(email, WithPredicate("is_greater_than"), now) = "True")
        /\ ReceivedAt = Cutoff =>
              /\ helpers_condition(email, WithPredicate("is_less_than"), now) = "False"
              /\ helpers_condition(email, WithPredicate("is_greater_than"), now) = "False"

\* A naive received date exactly at the cutoff, under is_greater_than
C3_Witness ==
    /\ DateCall
    /\ rule.conditions[1].predicate = "is_greater_than"
    /\ ~email.date_received.b
    /\ ReceivedAt = Cutoff
    /\ result = "False"

\* C4: evaluating a rule against a message never raises; a condition that
\* cannot be interpreted resolves to false.
C4_NeverRaises == Called_matcher => result \in {"True", "False"}

\* C11: for a rule whose predicate is neither ALL nor ANY, email_matches_rule
\* combines the condition results with ALL semantics: the AND of the
\* results, True for an empty condition list.
C11_FallbackIsAll ==
    (/\ Called_matcher
     /\ rule.predicate \notin PredicateType
     /\ \A i \in ConditionIndices : ConditionResult(i) /= "Raise")
    => (result = "True" <=> \A i \in ConditionIndices : ConditionResult(i) = "True")

\* What holds of the code: email_processor.email_matches_rule falls back to
\* ALL, helpers.email_matches_rule falls back to ANY.
C11_FallbackPerMatcher ==
    (/\ Called_matcher
     /\ rule.predicate \notin PredicateType
     /\ \A i \in ConditionIndices : ConditionResult(i) /= "Raise")
    => IF fn = "processor"
       THEN result = "True" <=> \A i \in ConditionIndices : ConditionResult(i) = "True"
       ELSE result = "True" <=> \E i \in ConditionIndices : ConditionResult(i) = "True"

---------------------------------------------------------------------------
(* Claims about the action dispatcher, checked under ActSpec.              *)

\* The store calls among a sequence of events, as <<function, key, argument>>
CallsIn(events) ==
    LET calls == SelectSeq(events, LAMBDA ev : ev.k = "call")
    IN  [i \in 1..Len(calls) |-> <<calls[i].what, calls[i].id, calls[i].arg>>]

HasFolder(a) == a.folder.t = "str" /\ Len(a.folder.s) > 0

\* The store calls an action list stands for, in declared order
RECURSIVE ExpectedCalls(_, _)
ExpectedCalls(message_id, as) ==
    IF Len(as) = 0 THEN <<>>
    ELSE LET a == Head(as)
             one == CASE a.action = "move" /\ HasFolder(a) ->
                            << <<"update_email_folder", message_id, a.folder>> >>
                      [] a.action = "mark_as_read" ->
                            << <<"update_email_read_status", message_id,
                                 PyBoolean(TRUE)>> >>
                      [] a.action = "mark_as_unread" ->
                            << <<"update_email_read_status", message_id,
                                 PyBoolean(FALSE)>> >>
                      [] OTHER -> <<>>
         IN  one \o ExpectedCalls(message_id, Tail(as))

CountEvents(events, k, what) ==
    Cardinality({i \in 1..Len(events) : events[i].k = k /\ events[i].what = what})

CountActions(as, kinds, withFolder) ==
    Cardinality({i \in 1..Len(as) :
                    as[i].action \in kinds /\ HasFolder(as[i]) = withFolder})

\* C6: a move whose folder is absent or empty never calls
\* update_email_folder, is reported as skipped, and does not keep the
\* actions after it from being executed.
C6_MoveWithoutFolderSkipped ==
    fn = "perform_actions" =>
        /\ \A i \in 1..Len(log) :
              (log[i].k = "call" /\ log[i].what = "update_email_folder")
                  => (log[i].arg.t = "str" /\ Len(log[i].arg.s) > 0)
        /\ CountEvents(log, "call", "update_email_folder")
              = CountActions(actionList, {"move"}, TRUE)
        /\ CountEvents(log, "print", NoFolderMessage)
              = CountActions(actionList, {"move"}, FALSE)
        /\ CountEvents(log, "call", "update_email_read_status")
              = Cardinality({i \in 1..Len(actionList) :
                    actionList[i].action \in {"mark_as_read", "mark_as_unread"}})

\* A move without folder, reported, followed by an action that was executed
C6_Witness ==
    /\ fn = "perform_actions"
    /\ Len(actionList) = 2
    /\ actionList[1] = RuleAction("move", PyNone)
    /\ actionList[2].action = "mark_as_read"
    /\ Len(log) = 3
    /\ log[1].k = "print" /\ log[1].what = NoFolderMessage
    /\ log[3].k = "call" /\ log[3].what = "update_email_read_status"

\* C7: perform_actions issues the store calls of its actions in declared
\* order, one per executable action and no others, each keyed by the
\* message's message_id.
C7_CallsInDeclaredOrder ==
    fn = "perform_actions" =>
        CallsIn(log) = ExpectedCalls(email.message_id, actionList)

\* Three different calls on a stored message
C7_Witness ==
    /\ fn = "perform_actions"
    /\ email.message_id = PyStr(sM1)
    /\ actionList = << RuleAction("mark_as_unread", PyNone),
                       RuleAction("move", PyStr(sArchive)),
                       RuleAction("mark_as_read", PyNone) >>
    /\ Len(CallsIn(log)) = 3
    /\ \A i \in 1..Len(log) : log[i].k = "call" => log[i].ret

ExecutedMessages ==
    {"Moving email", "Marking email as read", "Marking email as unread"}

\* C13: applying actions yields a per-action report: every action has an
\* entry (an action of unrecognised kind one saying it was skipped), and an
\* action whose store update returned False is not reported as executed.
C13_PerActionReport ==
    fn = "perform_actions" =>
        /\ Cardinality({k \in 1..Len(log) : log[k].k = "print"}) = Len(actionList)
        /\ \A k \in 2..Len(log) :
              (log[k].k = "call" /\ ~log[k].ret)
                  => log[k - 1].what \notin ExecutedMessages

\* What holds of the code: the dispatcher prints its line before the store
\* call whatever the call returns, and prints nothing for an unknown kind.
C13_WhatIsPrinted ==
    fn = "perform_actions" =>
        /\ Cardinality({k \in 1..Len(log) : log[k].k = "print"})
              = Cardinality({i \in 1..Len(actionList) :
                                actionList[i].action \in ActionType})
        /\ \A k \in 2..Len(log) :
              log[k].k = "call" => log[k - 1].what \in ExecutedMessages

\* C14: applying an action list a second time, right after the first, leaves
\* the store as the first application left it, and the second call does
\* what a call with these arguments on this store does: the same store
\* calls with the same return values.
C14_Idempotent ==
    [][(fn = "perform_actions" /\ fn' = "perform_actions_again")
          => (store' = store /\ log' = log)]_vars

\* A stored message marked read and moved, twice
C14_Witness ==
    /\ fn = "perform_actions_again"
    /\ email.message_id = PyStr(sM1)
    /\ actionList = << RuleAction("mark_as_read", PyNone),
                       RuleAction("move", PyStr(sImportantUrgent)) >>
    /\ Len(CallsIn(log)) = 2
    /\ \A k \in 1..Len(log) : log[k].k = "call" => log[k].ret
    /\ \E i \in 1..Len(store) :
          /\ store[i].message_id = PyStr(sM1)
          /\ store[i].folder = PyStr(sImportantUrgent)
          /\ store[i].is_read = PyInt(1)

---------------------------------------------------------------------------
(* Claims about the rules loader, checked under LoadSpec.                  *)

\* The document breaks the rule model: no rules, a rule without predicate,
\* conditions or actions, a predicate other than all/any, a condition
\* without field or with a value that is no string, an action without kind
\* or of a kind other than move/mark_as_read/mark_as_unread
C10_Defective(doc) ==
    \/ "rules" \notin DOMAIN doc
    \/ \E i \in 1..Len(doc.rules) :
        LET r == doc.rules[i]
        IN  \/ "predicate" \notin DOMAIN r
            \/ "conditions" \notin DOMAIN r
            \/ "actions" \notin DOMAIN r
            \/ r.predicate \notin {"all", "any"}
            \/ \E j \in 1..Len(r.conditions) :
                  \/ "field" \notin DOMAIN r.conditions[j]
                  \/ /\ "value" \in DOMAIN r.conditions[j]
                     /\ r.conditions[j].value.t = "int"
            \/ \E j \in 1..Len(r.actions) :
                  \/ "action" \notin DOMAIN r.actions[j]
                  \/ r.actions[j].action
                        \notin {"move", "mark_as_read", "mark_as_unread"}

\* What a key of a JSON object gives a model field: its value, or None
C10_Field(d, key) == IF key \in DOMAIN d THEN d[key] ELSE PyNone

\* The returned rules are the document's, in order, with their conditions
\* and actions
C10_SameRules(doc) ==
    /\ Len(rules) = Len(doc.rules)
    /\ \A i \in 1..Len(rules) :
        LET r == doc.rules[i]
        IN  /\ rules[i].predicate = r.predicate
            /\ Len(rules[i].conditions) = Len(r.conditions)
            /\ \A j \in 1..Len(r.conditions) :
                  /\ rules[i].conditions[j].field = r.conditions[j].field
                  /\ rules[i].conditions[j].contains
                        = C10_Field(r.conditions[j], "contains")
                  /\ rules[i].conditions[j].value
                        = C10_Field(r.conditions[j], "value")
                  /\ rules[i].conditions[j].predicate
                        = (IF "predicate" \in DOMAIN r.conditions[j]
                           THEN r.conditions[j].predicate ELSE NoPredicate)
            /\ Len(rules[i].actions) = Len(r.actions)
            /\ \A j \in 1..Len(r.actions) :
                  /\ rules[i].actions[j].action = r.actions[j].action
                  /\ rules[i].actions[j].folder = C10_Field(r.actions[j], "folder")

C10_Missing == ~rulesFile.exists => (loaded = "none" /\ rules = <<>>)

C10_Conforming ==
    (rulesFile.exists /\ rulesFile.is_json /\ ~C10_Defective(rulesFile.doc))
    => (loaded = "none" /\ C10_SameRules(rulesFile.doc))

\* C10 as claimed: a missing source gives an empty rule set; a source that
\* is not valid JSON or does not conform fails with a ValidationError and
\* returns no rules; a conforming source gives its rules in declared order.
C10_LoadRulesAsClaimed ==
    fn = "load_rules" =>
        /\ C10_Missing
        /\ (rulesFile.exists /\ (~rulesFile.is_json \/ C10_Defective(rulesFile.doc)))
              => (loaded = "ValidationError" /\ rules = <<>>)
        /\ C10_Conforming

\* C10 as amended: a source that is not valid JSON fails with a
\* JSONDecodeError, a JSON source that does not conform with a
\* ValidationError; the rest as claimed.
C10_LoadRules ==
    fn = "load_rules" =>
        /\ C10_Missing
        /\ (rulesFile.exists /\ ~rulesFile.is_json)
              => (loaded = "JSONDecodeError" /\ rules = <<>>)
        /\ (rulesFile.exists /\ rulesFile.is_json /\ C10_Defective(rulesFile.doc))
              => (loaded = "ValidationError" /\ rules = <<>>)
        /\ C10_Conforming

\* A source that is not JSON was loaded and failed with a JSONDecodeError
C10_Witness ==
    /\ fn = "load_rules"
    /\ rulesFile.exists
    /\ ~rulesFile.is_json
    /\ loaded = "JSONDecodeError"

\* A relative-date condition, as helpers.email_matches_rule tells one
C15_IsDateCondition(c) ==
    c.field = "date_received" /\ Truthy(PyOr(c.value, c.contains))

\* A message with a received date, as the date tests build it
C15_DatedEmail ==
    MatchEmailBase(PyStr(sUrgentMeetingNow))
        @@ [date_received |-> PyDateTime(0, TRUE, 0)]

\* C15: a rule whose relative-date condition has a value that int() cannot
\* convert is rejected when the rules are loaded, so no rule that
\* load_rules returns fails on the day-count conversion when evaluated.
C15_DayCountCheckedAtLoad ==
    (fn = "load_rules" /\ loaded = "none") =>
        \A i \in 1..Len(rules) : \A j \in 1..Len(rules[i].conditions) :
            LET c == rules[i].conditions[j]
            IN  C15_IsDateCondition(c) =>
                    /\ IntParses(c.value)
                    /\ helpers_condition(C15_DatedEmail, c, NoNow) /= "Raise"

---------------------------------------------------------------------------
(* Claims about the store and the runs, checked under Spec.                *)

SampleFile == JsonFile([rules |-> <<SampleRule>>])

\* The run's snapshot holds the sample message, unread and in INBOX
SampleMessageAtStart ==
    \E i \in 1..Len(emails) :
        /\ emails[i].message_id = PyStr(sM1)
        /\ emails[i].subject = PyStr(sUrgentMeetingNow)
        /\ emails[i].sender = PyStr(sBoss)
        /\ emails[i].is_read = PyBoolean(FALSE)
        /\ emails[i].folder = PyStr(sINBOX)

SampleMessageProcessed ==
    \E j \in 1..Len(store) :
        /\ get_all_emails(store)[j].message_id = PyStr(sM1)
        /\ get_all_emails(store)[j].is_read = PyBoolean(TRUE)
        /\ get_all_emails(store)[j].folder = PyStr(sImportantUrgent)

\* C5: with the single sample rule and the sample message stored unread in
\* INBOX, the message is read and in "Important/Urgent" once process_emails
\* has ended.
C5_EndToEnd ==
    (pc = "done" /\ rulesFile = SampleFile /\ SampleMessageAtStart)
    => SampleMessageProcessed

C5_Witness ==
    /\ pc = "done"
    /\ rulesFile = SampleFile
    /\ SampleMessageAtStart
    /\ SampleMessageProcessed

C8_UniqueIds ==
    \A i, j \in 1..Len(store) :
        store[i].message_id = store[j].message_id => i = j

\* A step of fetch_and_store_emails that changed something
C8_FetchStep ==
    /\ pc \in Stopped
    /\ <<fetched, inserted, store>>' /= <<fetched, inserted, store>>

C8_Stored(st, message_id) == \E i \in 1..Len(st) : st[i].message_id = message_id

\* C8: no two rows share a message_id; insert_email of a message_id that is
\* stored returns false, adds no row and leaves every stored row as it was,
\* folder and is_read included.
C8_DuplicateRejected ==
    /\ []C8_UniqueIds
    /\ [][C8_FetchStep =>
            /\ \A k \in 1..Len(fetched') :
                  inserted'[k] =
                      ~(\/ C8_Stored(store, fetched'[k].message_id)
                        \/ \E h \in 1..(k - 1) :
                              fetched'[h].message_id = fetched'[k].message_id)
            /\ Len(store') =
                  Len(store) + Cardinality({k \in 1..Len(fetched') : inserted'[k]})
            /\ \A i \in 1..Len(store) : store'[i] = store[i]]_vars

\* A re-fetched message was rejected and its row kept the folder and read
\* status that rule actions had given it
C8_Witness ==
    \E k \in 1..Len(fetched) : \E i \in 1..Len(store) :
        /\ ~inserted[k]
        /\ store[i].message_id = fetched[k].message_id
        /\ store[i].folder = PyStr(sImportantUrgent)
        /\ store[i].is_read = PyInt(1)

\* The (email, rule) pairs the run handed to the matcher, in order
C9_Checks == SelectSeq(log, LAMBDA ev : ev.k = "check")

\* C9: in a run with a non-empty rule set every (message, rule) pair is
\* evaluated, messages in store order and rules in declared order, a match
\* not stopping the later rules.
C9_EveryPairEvaluated ==
    (pc \in {"done", "crashed"} /\ loaded = "none" /\ Len(rules) > 0)
    => /\ Len(C9_Checks) = Len(emails) * Len(rules)
       /\ \A k \in 1..Len(C9_Checks) :
             /\ C9_Checks[k].e = ((k - 1) \div Len(rules)) + 1
             /\ C9_Checks[k].r = ((k - 1) % Len(rules)) + 1

\* The same, of the runs that reach their end
C9_EveryPairEvaluatedWhenDone ==
    (pc = "done" /\ loaded = "none" /\ Len(rules) > 0)
    => /\ Len(C9_Checks) = Len(emails) * Len(rules)
       /\ \A k \in 1..Len(C9_Checks) :
             /\ C9_Checks[k].e = ((k - 1) \div Len(rules)) + 1
             /\ C9_Checks[k].r = ((k - 1) % Len(rules)) + 1


\* The stored message as the date-aware matcher takes it: with the datetime
\* its Date header denotes under date_received (the model's header text
\* denotes day 0)
C16_AsReceived(mail) ==
    IF mail.date.t = "str"
    THEN mail @@ [date_received |-> PyDateTime(0, TRUE, 0)]
    ELSE mail

\* Ten days after the messages were received
C16_Now == PyDateTime(10, TRUE, 0)

\* C16: for every stored message and loaded rule, process_emails takes the
\* rule to match (and applies its actions) exactly when
\* helpers.email_matches_rule returns True for that message and rule; a
\* message received ten days ago matches date_received is_less_than 7.
C16_OrchestratorMatchesAsHelpers ==
    \A k \in 1..Len(log) :
        log[k].k = "check" =>
            (log[k].what = "True"
                <=> helpers_email_matches_rule(C16_AsReceived(emails[log[k].e]),
                                               rules[log[k].r], C16_Now) = "True")

\* What holds of the code: a relative-date condition is never true in a run
C16_DateRulesNeverMatchInRuns ==
    \A k \in 1..Len(log) :
        (/\ log[k].k = "check"
         /\ rules[log[k].r].predicate = "all"
         /\ \E j \in 1..Len(rules[log[k].r].conditions) :
               rules[log[k].r].conditions[j].field = "date_received")
        => log[k].what /= "True"

\* A step of process_emails (a fetch leaves the run's variables alone)
C18_RunStep ==
    <<pc, emails, rules, ei, ri, ai, loaded, log>>'
        /= <<pc, emails, rules, ei, ri, ai, loaded, log>>

\* C18: a processing run changes nothing but the folder and is_read of
\* matched messages: a step of the run adds and removes no row, changes no
\* other column, changes a row only while applying the actions of a rule
\* that matched that row's message, and with no rules makes no store call.
C18_OnlyFolderAndReadOfMatched ==
    /\ [](Len(rules) = 0 => CallsIn(log) = <<>>)
    /\ [][C18_RunStep =>
            /\ Len(store') = Len(store)
            /\ \A i \in 1..Len(store) :
                  /\ [store'[i] EXCEPT !.folder = store[i].folder,
                                       !.is_read = store[i].is_read] = store[i]
                  /\ store'[i] /= store[i] =>
                        /\ pc = "act"
                        /\ store[i].message_id = emails[ei].message_id
                        /\ \E k \in 1..Len(log) : log[k] = Checked(ei, ri, "True")
            /\ Len(rules') = 0 => store' = store]_vars

\* A finished run that moved one message and left another, which no rule
\* matched, as it was stored
C18_Witness ==
    /\ pc = "done"
    /\ \E i, j \in 1..Len(store) :
          /\ store[i].folder = PyStr(sImportantUrgent)
          /\ store[j].folder = PyStr(sINBOX)
          /\ store[j].is_read = PyInt(0)
          /\ \E k \in 1..Len(log) : log[k].k = "check" /\ log[k].e = j
          /\ \A k \in 1..Len(log) :
                (log[k].k = "check" /\ log[k].e = j) => log[k].what = "False"

C19_ChecksUseSnapshot ==
    \A k \in 1..Len(log) :
        log[k].k = "check" =>
            log[k].what = processor_email_matches_rule(emails[log[k].e],
                                                       rules[log[k].r])

\* C19: every rule of a run is matched against the messages as read from
\* the store when the run started: the snapshot is taken at the start, is
\* not changed while the run goes on, and every match recorded is the
\* matcher's result on the snapshot, whatever earlier actions wrote.
C19_MatchOnSnapshot ==
    /\ []C19_ChecksUseSnapshot
    /\ [][(pc \in {"match", "act"}) => emails' = emails]_vars
    /\ [][(pc \in Stopped /\ pc' = "match") => emails' = get_all_emails(store)]_vars

\* A rule on the folder did not match a message that an earlier rule of the
\* same run had moved to a folder it would match
C19_Witness ==
    \E k \in 1..Len(log) :
        /\ log[k].k = "check"
        /\ log[k].what = "False"
        /\ rules[log[k].r].conditions[1].field = "folder"
        /\ processor_email_matches_rule(get_all_emails(store)[log[k].e],
                                        rules[log[k].r]) = "True"
        /\ \E h \in 1..(k - 1) :
              /\ log[h].k = "call" /\ log[h].what = "update_email_folder"
              /\ log[h].ret
              /\ log[h].id = emails[log[k].e].message_id

---------------------------------------------------------------------------
(* Claims about runs on a store that can fail, checked under FaultSpec.    *)

\* The store calls the matches recorded in a log stand for, in order
RECURSIVE RunCalls(_)
RunCalls(lg) ==
    IF Len(lg) = 0 THEN <<>>
    ELSE (IF Head(lg).k = "check" /\ Head(lg).what = "True"
          THEN ExpectedCalls(emails[Head(lg).e].message_id, rules[Head(lg).r].actions)
          ELSE <<>>) \o RunCalls(Tail(lg))

IsPrefix(a, b) == Len(a) <= Len(b) /\ SubSeq(b, 1, Len(a)) = a

\* The events a step of the run added to the log
NewEvents == {k \in (Len(log) + 1)..Len(log') : pc \in {"match", "act"}}

C12_NoCrashOnWrite ==
    pc = "crashed" =>
        \/ loaded /= "none"
        \/ Len(log) > 0 /\ log[Len(log)].k = "check" /\ log[Len(log)].what = "Raise"

C12_AllProcessed ==
    (pc = "done" /\ loaded = "none" /\ Len(rules) > 0) =>
        /\ Len(C9_Checks) = Len(emails) * Len(rules)
        /\ \A k \in 1..Len(C9_Checks) :
              /\ C9_Checks[k].e = ((k - 1) \div Len(rules)) + 1
              /\ C9_Checks[k].r = ((k - 1) % Len(rules)) + 1
        /\ CallsIn(log) = RunCalls(log)

RECURSIVE C17_Replay(_, _)
C17_Replay(row, lg) ==
    IF Len(lg) = 0 THEN row
    ELSE LET ev == Head(lg)
             next == IF ev.k = "call" /\ ev.ret /\ ev.id = row.message_id
                     THEN IF ev.what = "update_email_folder"
                          THEN [row EXCEPT !.folder = ev.arg]
                          ELSE [row EXCEPT !.is_read = ev.arg]
                     ELSE row
         IN  C17_Replay(next, Tail(lg))

C17_StoreIsReplay ==
    pc /= "idle" =>
        /\ IsPrefix(CallsIn(log), RunCalls(log))
        /\ \A i \in 1..Len(store) : \A e \in 1..Len(emails) :
              store[i].message_id = emails[e].message_id
                  => get_all_emails(store)[i] = C17_Replay(emails[e], log)

\* C17: every action's write is committed on its own, never retried or
\* rolled back: the store calls of a run are a prefix of the calls its
\* matches stand for (at most one per message, rule and action), the log
\* only grows, and at every point of the run, an interruption included, each
\* stored row is its row at the start of the run with the successful writes
\* so far applied in order.
C17_AtMostOnceNoRollback ==
    /\ []C17_StoreIsReplay
    /\ [][(pc \in {"match", "act"}) => (IsPrefix(log, log') /\ emails' = emails)]_vars

\* An interrupted run: some writes applied, later ones of the rule absent
C17_Witness ==
    /\ pc = "interrupted"
    /\ Len(CallsIn(log)) >= 1
    /\ Len(CallsIn(log)) < Len(RunCalls(log))
    /\ \E i \in 1..Len(store) : \E e \in 1..Len(emails) :
          /\ store[i].message_id = emails[e].message_id
          /\ get_all_emails(store)[i] /= emails[e]


===========================================================================
